---- MODULE Spec2Model ----
(***************************************************************************)
(* Team allocation of sorting.py: initialize_teams, swap_between_teams,    *)
(* simulated_annealing and the constraint system of ilp_team_allocation.   *)
(* A team is the set Team.players; a partition is the list `teams`.        *)
(* Players are numbered 1..n; random.shuffle, random.sample, random.choice *)
(* and random.random are nondeterministic choices.                         *)
(***************************************************************************)
EXTENDS Integers, Sequences, FiniteSets

\* ------------------------------------------------------------- bounds
MaxPlayers == 4
MaxTeams == 3
MaxGroups == 2
MaxIter == 2

\* Ratings a player may have (Player.rating).
RatingValues == {1, 10}

VARIABLES
    players,               \* the roster: a set of player ids
    rating,                \* Player.rating of each player
    num_teams,             \* num_teams
    together_constraints,  \* list of groups (sets of players)
    apart_constraints,     \* dict player -> players to keep apart (absent key: {})
    pc,                    \* "start" | "initialized" | "loop" | "done" | "raised"
                           \*   | "ilp_done" | "ilp_infeasible"
    teams,                 \* simulated_annealing: teams (list of Team.players)
    best_teams,            \* simulated_annealing: best_teams
    current_imbalance,     \* simulated_annealing: current_imbalance
    best_imbalance,        \* simulated_annealing: best_imbalance
    temp,                  \* cooling steps left before temp <= min_temp
    ilp_teams              \* ilp_team_allocation: the decoded teams

vars == <<players, rating, num_teams, together_constraints, apart_constraints,
          pc, teams, best_teams, current_imbalance, best_imbalance, temp,
          ilp_teams>>

instance == <<players, rating, num_teams, together_constraints, apart_constraints>>

\* ------------------------------------------------------------ helpers
Min(a, b) == IF a < b THEN a ELSE b

Range(s) == {s[i] : i \in 1..Len(s)}

\* All orders random.shuffle can leave a list of the players in S in.
Shuffles(S) ==
    {s \in [1..Cardinality(S) -> S] : \A i, j \in 1..Cardinality(S) : i # j => s[i] # s[j]}

\* The list s without its element at index i (list.remove of that object).
RemoveAt(s, i) == [j \in 1..(Len(s) - 1) |-> IF j < i THEN s[j] ELSE s[j + 1]]

\* --------------------------------------------------------------- Team
RECURSIVE SumRatings(_, _)
SumRatings(S, r) ==
    IF S = {} THEN 0
    ELSE LET p == CHOOSE q \in S : TRUE IN r[p] + SumRatings(S \ {p}, r)

\* Team.current_score
current_score(team) == SumRatings(team, rating)

\* Team.contains_any
contains_any(team, ps) == \E p \in ps : p \in team

\* Mutant of swap_players: the old player is never removed.
swap_players_keeps_old(team, new, old) ==
    IF old \in team THEN team \cup {new} ELSE team

\* Team.swap_players(new, old)
swap_players(team, new, old) ==
    IF old \in team THEN (team \ {old}) \cup {new} ELSE team

\* calculate_imbalance: max(team_scores) - min(team_scores)
calculate_imbalance(ts) ==
    LET scores == {current_score(ts[i]) : i \in 1..Len(ts)}
        hi == CHOOSE s \in scores : \A u \in scores : u <= s
        lo == CHOOSE s \in scores : \A u \in scores : s <= u
    IN hi - lo

\* --------------------------------------------------- initialize_teams
\* Lines 96-101: one team per together-group; a group sharing a member with
\* an already seeded group is skipped.
RECURSIVE SeedTeams(_, _)
SeedTeams(groups, seeded) ==
    IF groups = <<>> THEN seeded
    ELSE LET group_set == Head(groups)
             assigned == UNION Range(seeded)
         IN IF assigned \cap group_set # {}
            THEN SeedTeams(Tail(groups), seeded)
            ELSE SeedTeams(Tail(groups), Append(seeded, group_set))

\* Lines 109-121: for i in range(num_teams), pop remaining players (from the
\* end of the list) into team i until it has target_size members.
RECURSIVE FillTeams(_, _, _, _, _, _)
FillTeams(i, ts, remaining_players, extra_players, team_size, k) ==
    IF i > k THEN ts
    ELSE LET current_team_size == IF i <= Len(ts) THEN Cardinality(ts[i]) ELSE 0
             target_size == team_size + (IF extra_players > 0 THEN 1 ELSE 0)
             need == IF target_size > current_team_size
                     THEN target_size - current_team_size ELSE 0
             take == Min(need, Len(remaining_players))
             left == Len(remaining_players) - take
             popped == {remaining_players[j] : j \in (left + 1)..Len(remaining_players)}
             grown == IF take > 0 /\ i > Len(ts) THEN Append(ts, {}) ELSE ts
             filled == IF take > 0 THEN [grown EXCEPT ![i] = @ \cup popped] ELSE grown
         IN FillTeams(i + 1, filled, SubSeq(remaining_players, 1, left),
                      IF extra_players > 0 THEN extra_players - 1 ELSE extra_players,
                      team_size, k)

\* min(candidates, key=len): the first team of least size among idx.
SmallestIndex(ts, idx) ==
    CHOOSE i \in idx : \A j \in idx :
        \/ Cardinality(ts[i]) < Cardinality(ts[j])
        \/ Cardinality(ts[i]) = Cardinality(ts[j]) /\ i <= j

\* Lines 124-130: while there are more than num_teams teams, the smallest
\* team is poured into the second smallest and removed.
RECURSIVE MergeTeams(_, _)
MergeTeams(ts, k) ==
    IF Len(ts) <= k THEN ts
    ELSE LET smallest_team == SmallestIndex(ts, 1..Len(ts))
             second_smallest_team == SmallestIndex(ts, (1..Len(ts)) \ {smallest_team})
             merged == [ts EXCEPT ![second_smallest_team] = @ \cup ts[smallest_team]]
         IN MergeTeams(RemoveAt(merged, smallest_team), k)

\* initialize_teams(players, num_teams, together_constraints), `order` being
\* the list after random.shuffle(players).
initialize_teams(order, k, together) ==
    LET seeded == SeedTeams(together, <<>>)
        assigned == UNION Range(seeded)
        total_players == Len(order)
        remaining_players == SelectSeq(order, LAMBDA p : p \notin assigned)
        team_size == total_players \div k
        extra_players == total_players % k
    IN MergeTeams(FillTeams(1, seeded, remaining_players, extra_players, team_size, k), k)

\* ------------------------------------------------- swap_between_teams
\* apart_constraints.get(player, [])
ApartOf(p) == IF p \in DOMAIN apart_constraints THEN apart_constraints[p] ELSE {}

\* Lines 76-79: some together-group lies wholly in team_a or in team_b.
TogetherBlocks(team_a, team_b) ==
    \/ \E i \in 1..Len(together_constraints) : together_constraints[i] \subseteq team_a
    \/ \E i \in 1..Len(together_constraints) : together_constraints[i] \subseteq team_b

\* Line 82: the apart test, on each team and the player drawn from it.
ApartBlocks(team_a, team_b, player_a, player_b) ==
    \/ contains_any(team_a, ApartOf(player_a))
    \/ contains_any(team_b, ApartOf(player_b))

\* swap_between_teams with team_a = ts[a], team_b = ts[b] and the drawn
\* players player_a, player_b: the list after the call.
swap_between_teams(ts, a, b, player_a, player_b) ==
    IF TogetherBlocks(ts[a], ts[b]) THEN ts
    ELSE IF ApartBlocks(ts[a], ts[b], player_a, player_b) THEN ts
    ELSE [ts EXCEPT ![a] = swap_players(ts[a], player_b, player_a),
                    ![b] = swap_players(ts[b], player_a, player_b)]

\* ------------------------------------------------ simulated_annealing
\* Accepts_without_improvement is the mutant of Accepts that forgets the
\* test new_imbalance < current_imbalance.
\* Line 153: accept when strictly better, or when random.random() falls
\* under exp((current - new) / temp).  The exponential is 1.0 for an equal
\* imbalance (random.random() < 1.0 always holds) and below 1 for a worse
\* one, where `coin` is the outcome of the draw.
Accepts_without_improvement(new_imbalance, current, coin) ==
    \/ new_imbalance = current
    \/ coin

Accepts(new_imbalance, current, coin) ==
    \/ new_imbalance < current
    \/ new_imbalance = current
    \/ coin

\* Mutant of Improves: every accepted solution replaces the best one.
Improves_always(current, best) == TRUE

\* Line 158: the best solution is replaced only by a strictly better one.
Improves(current, best) == current < best

\* ------------------------------------------------ ilp_team_allocation
\* An assignment x[player] = team stands for the binary x[player, team]
\* under the constraint of line 194 (every player in exactly one team).
Assignments == [players -> 1..num_teams]

TeamOf(x, t) == {p \in players : x[p] = t}

\* Lines 197-203: every team has between min_team_size and max_team_size players.
SizeConstraint(x) ==
    LET total_players == Cardinality(players)
        min_team_size == total_players \div num_teams
        max_team_size == min_team_size + (IF total_players % num_teams # 0 THEN 1 ELSE 0)
    IN \A t \in 1..num_teams :
          /\ Cardinality(TeamOf(x, t)) >= min_team_size
          /\ Cardinality(TeamOf(x, t)) <= max_team_size

\* Lines 206-208: sum(x[p, t] for p in group) == len(group) * x[first, t].
TogetherConstraint(x) ==
    \A i \in 1..Len(together_constraints) : \A t \in 1..num_teams :
        LET group == together_constraints[i]
            first == CHOOSE p \in group : TRUE
        IN Cardinality(group \cap TeamOf(x, t))
              = Cardinality(group) * (IF x[first] = t THEN 1 ELSE 0)

\* Lines 211-215: x[player1, t] + x[player2, t] <= 1.
ApartConstraint(x) ==
    \A player1 \in DOMAIN apart_constraints : \A player2 \in apart_constraints[player1] :
        \A t \in 1..num_teams :
            (IF x[player1] = t THEN 1 ELSE 0) + (IF x[player2] = t THEN 1 ELSE 0) <= 1

Feasible == {x \in Assignments :
                SizeConstraint(x) /\ TogetherConstraint(x) /\ ApartConstraint(x)}

\* Lines 221-226: the teams decoded from the solver's values.
Decode(x) == [t \in 1..num_teams |-> TeamOf(x, t)]

\* Lines 184-190: the objective max_score - min_score at its least for x.
Objective(x) == calculate_imbalance(Decode(x))

\* The value of the objective at an optimal solution.
ILPOptimum ==
    CHOOSE v \in {Objective(x) : x \in Feasible} :
        \A w \in {Objective(x) : x \in Feasible} : v <= w

\* ------------------------------------------------------------- inputs
\* Lists of at most n elements of S.
RECURSIVE ListsUpTo(_, _)
ListsUpTo(S, n) ==
    IF n = 0 THEN {<<>>}
    ELSE LET shorter == ListsUpTo(S, n - 1)
         IN shorter \cup {Append(l, g) : l \in {m \in shorter : Len(m) = n - 1}, g \in S}

\* A together-group names at least two players of the roster.
Groups(S) == {g \in SUBSET S : Cardinality(g) >= 2}

\* An apart map: empty, or one rule A -> [B] (main()'s commented example).
ApartMaps(S) ==
    {<<>>} \cup {[x \in {ab[1]} |-> {ab[2]}] : ab \in {pq \in S \X S : pq[1] # pq[2]}}

\* Rosters are named in order of rating: shuffling makes the order of the
\* input list immaterial.
Ratings(S) == {r \in [S -> RatingValues] : \A p, q \in S : p < q => r[p] >= r[q]}

\* ------------------------------------------------------ state machine
Init ==
    /\ \E n \in 1..MaxPlayers : players = 1..n
    /\ rating \in Ratings(players)
    /\ num_teams \in 1..MaxTeams
    /\ together_constraints \in ListsUpTo(Groups(players), MaxGroups)
    /\ apart_constraints \in ApartMaps(players)
    /\ pc = "start"
    /\ teams = <<>>
    /\ best_teams = <<>>
    /\ current_imbalance = -1
    /\ best_imbalance = -1
    /\ temp = 0
    /\ ilp_teams = <<>>

\* Line 137: teams = initialize_teams(players, num_teams, together_constraints).
InitializeTeams ==
    /\ pc = "start"
    /\ \E order \in Shuffles(players) :
          teams' = initialize_teams(order, num_teams, together_constraints)
    /\ pc' = "initialized"
    /\ UNCHANGED <<instance, best_teams, current_imbalance, best_imbalance, temp, ilp_teams>>

\* Lines 139-142: the first current and best solution; MaxIter cooling
\* steps take temp from initial_temp to min_temp or below.
SABegin ==
    /\ pc = "initialized"
    /\ current_imbalance' = calculate_imbalance(teams)
    /\ best_teams' = teams
    /\ best_imbalance' = calculate_imbalance(teams)
    /\ temp' = MaxIter
    /\ pc' = "loop"
    /\ UNCHANGED <<instance, teams, ilp_teams>>

\* Lines 144-163: one iteration of the loop.
SAIterate ==
    /\ pc = "loop"
    /\ temp > 0
    /\ Len(teams) >= 2
    /\ \E a \in 1..Len(teams), b \in 1..Len(teams), coin \in BOOLEAN :
          /\ a # b
          /\ \E player_a \in teams[a], player_b \in teams[b] :
                LET new_teams == swap_between_teams(teams, a, b, player_a, player_b)
                    new_imbalance == calculate_imbalance(new_teams)
                    accepted == Accepts(new_imbalance, current_imbalance, coin)
                    better == accepted /\ Improves(new_imbalance, best_imbalance)
                IN /\ teams' = IF accepted THEN new_teams ELSE teams
                   /\ current_imbalance' = IF accepted THEN new_imbalance ELSE current_imbalance
                   /\ best_teams' = IF better THEN new_teams ELSE best_teams
                   /\ best_imbalance' = IF better THEN new_imbalance ELSE best_imbalance
    /\ temp' = temp - 1
    /\ UNCHANGED <<instance, pc, ilp_teams>>

\* Line 71: random.sample(teams, 2) raises ValueError on fewer than two teams.
SARaise ==
    /\ pc = "loop"
    /\ temp > 0
    /\ Len(teams) < 2
    /\ pc' = "raised"
    /\ UNCHANGED <<instance, teams, best_teams, current_imbalance, best_imbalance, temp, ilp_teams>>

\* Line 165: return best_teams, best_imbalance.
SAReturn ==
    /\ pc = "loop"
    /\ temp = 0
    /\ pc' = "done"
    /\ UNCHANGED <<instance, teams, best_teams, current_imbalance, best_imbalance, temp, ilp_teams>>

\* ilp_team_allocation on a feasible problem: the backend returns a
\* solution of the constraints (the optimum, or under its time limit the
\* best one found), which lines 221-226 decode.
ILPSolve ==
    /\ pc = "start"
    /\ \E x \in Feasible : ilp_teams' = Decode(x)
    /\ pc' = "ilp_done"
    /\ UNCHANGED <<instance, teams, best_teams, current_imbalance, best_imbalance, temp>>

\* ilp_team_allocation on an infeasible problem: the values the backend
\* leaves in x are unspecified and the decoded list is not modelled.
ILPInfeasible ==
    /\ pc = "start"
    /\ Feasible = {}
    /\ pc' = "ilp_infeasible"
    /\ UNCHANGED <<instance, teams, best_teams, current_imbalance, best_imbalance, temp, ilp_teams>>

Next ==
    \/ InitializeTeams
    \/ SABegin
    \/ SAIterate
    \/ SARaise
    \/ SAReturn
    \/ ILPSolve
    \/ ILPInfeasible

Spec == Init /\ [][Next]_vars

\* ------------------------------------- the 4-player scenario of C9
\* Four players rated 10, 10, 1, 1 (in any order), two teams, no together
\* and no apart constraints.
ScenarioInit ==
    /\ players = 1..4
    /\ rating \in {r \in [players -> RatingValues] :
                      Cardinality({p \in players : r[p] = 10}) = 2}
    /\ num_teams = 2
    /\ together_constraints = <<>>
    /\ apart_constraints = <<>>
    /\ pc = "start"
    /\ teams = <<>>
    /\ best_teams = <<>>
    /\ current_imbalance = -1
    /\ best_imbalance = -1
    /\ temp = 0
    /\ ilp_teams = <<>>

ScenarioNext ==
    \/ InitializeTeams
    \/ SABegin
    \/ SAIterate
    \/ SAReturn

\* The loop of simulated_annealing is sequential code: it keeps running
\* until it returns.
ScenarioSpec == ScenarioInit /\ [][ScenarioNext]_vars /\ WF_vars(ScenarioNext)

\* ------------------------------------------------ properties of teams
\* Every player of the roster is in exactly one team.
Proper(ts) ==
    /\ UNION Range(ts) = players
    /\ \A i, j \in 1..Len(ts) : i # j => ts[i] \cap ts[j] = {}

\* The sizes of any two teams differ by at most 1.
Balanced(ts) ==
    \A i, j \in 1..Len(ts) : Cardinality(ts[i]) - Cardinality(ts[j]) <= 1

\* Every together-group lies in one team.
CoLocated(ts) ==
    \A g \in 1..Len(together_constraints) :
        \E i \in 1..Len(ts) : together_constraints[g] \subseteq ts[i]

\* No team holds a player and a member of that player's apart list.
Separated(ts) ==
    \A a \in DOMAIN apart_constraints : \A b \in apart_constraints[a] :
        \A i \in 1..Len(ts) : ~(a \in ts[i] /\ b \in ts[i])

Initialized == pc \in {"initialized", "loop", "done", "raised"}
Annealing == pc \in {"loop", "done", "raised"}

\* ------------------------------------------------------------- claims
\* C1: the partition returned by initialize_teams, the current and the best
\* partition of simulated_annealing after any number of iterations, and the
\* partition decoded from any feasible solution of ilp_team_allocation hold
\* every player of the roster in exactly one team.
C1_Properness ==
    /\ Initialized => Proper(teams)
    /\ Annealing => Proper(best_teams)
    /\ pc = "ilp_done" => Proper(ilp_teams)

\* C1 witness: simulated_annealing returned after moving away from its best
\* partition, on an instance with a together-group.
C1_Witness ==
    /\ pc = "done"
    /\ teams # best_teams
    /\ together_constraints # <<>>

\* C2: initialize_teams returns exactly num_teams teams, and so does
\* simulated_annealing.
C2_ExactlyNumTeams ==
    /\ Initialized => Len(teams) = num_teams
    /\ pc = "done" => Len(best_teams) = num_teams

\* C3: in the partition returned by initialize_teams and in every current
\* and best partition of simulated_annealing the sizes of any two teams
\* differ by at most 1.
C3_SizeBalance ==
    /\ Initialized => Balanced(teams)
    /\ Annealing => Balanced(best_teams)

\* C4: in the partition returned by initialize_teams and in the partition
\* returned by simulated_annealing every together-group is in one team.
C4_TogetherCoLocated ==
    /\ pc = "initialized" => CoLocated(teams)
    /\ pc = "done" => CoLocated(best_teams)

\* C5: in the partition returned by simulated_annealing no player shares a
\* team with a member of its apart list.
C5_ApartSeparated == pc = "done" => Separated(best_teams)

\* C6: initialize_teams returns a partition only when some distribution
\* satisfies the size and together constraints (otherwise it fails).
C6_InfeasibleIsError ==
    pc = "initialized" =>
        \E x \in Assignments : SizeConstraint(x) /\ TogetherConstraint(x)

\* C7: best_imbalance never increases from one step of the loop of
\* simulated_annealing to the next.
C7_BestNeverIncreases == [][pc = "loop" => best_imbalance' <= best_imbalance]_vars

\* C7 witness: the current imbalance has risen above the best one.
C7_Witness == pc = "loop" /\ current_imbalance > best_imbalance

\* C8: where the exact formulation is feasible, its least imbalance is at
\* most the best imbalance simulated_annealing returns.
C8_ExactNotWorse ==
    (pc = "done" /\ Feasible # {}) => ILPOptimum <= best_imbalance

\* C9: on four players rated 10, 10, 1, 1 with two teams and no constraints
\* every run of simulated_annealing eventually records best_imbalance = 0.
C9_ReachesZero == <>(best_imbalance = 0)

\* C9 witness: the run returned best_imbalance = 0 while its current
\* partition is the unbalanced one, {10, 10} against {1, 1}.
C9_Witness == pc = "done" /\ best_imbalance = 0 /\ current_imbalance = 18

\* The partition ts with player_a of ts[a] and player_b of ts[b] exchanged.
Exchanged(ts, a, b, player_a, player_b) ==
    [ts EXCEPT ![a] = (@ \ {player_a}) \cup {player_b},
               ![b] = (@ \ {player_b}) \cup {player_a}]

\* C10: a move that would bring player_b into a team holding a player of
\* player_b's apart list, or player_a into a team holding a player of
\* player_a's apart list, leaves the partition unchanged: no step of the
\* loop makes such an exchange.
C10_ApartCheckOfMove ==
    [][pc = "loop" =>
          \A a, b \in 1..Len(teams) : \A player_a \in teams[a], player_b \in teams[b] :
              (/\ a # b
               /\ \/ contains_any(teams[a], ApartOf(player_b))
                  \/ contains_any(teams[b], ApartOf(player_a)))
              => teams' # Exchanged(teams, a, b, player_a, player_b)]_vars

====
